---- MODULE Spec2Model ----
(***************************************************************************)
(* The order engine of the marketplace server                             *)
(* (scripts/src/public/services/orders.ts over models/orders.ts):         *)
(* requests run concurrently, one step per await on the entity store;     *)
(* the store is a table of order rows; time is a clock in seconds.        *)
(***************************************************************************)
EXTENDS Integers, Sequences, FiniteSets, TLC

\* ---------------------------------------------------------------- bounds
NumProcs == 2     \* concurrent requests
MaxOrders == 3    \* order ids ever generated
MaxTicks == 2     \* clock advances
MaxRequests == 3  \* requests served
MaxRows == 3      \* rows of a store the history is read from
TokenLifetime == 600  \* seconds an issued token lasts
RegistrationLimit == 2  \* registrations of an application per window
EarnLimit == 3        \* amount earned in an application per window
MaxList == 3      \* elements of a list handed to batch
MaxChunks == 3    \* chunk callbacks of one batch call that are recorded
BulkAllowed == 3  \* app.config.bulk_user_creation_allowed before the requests
MinuteRegistration == 2  \* app.config.limits.minute_registration

\* ---------------------------------------------------- program constants
OPEN_TTL == 600       \* moment(createdDate).add(10, "minutes"), in seconds
PENDING_TTL == 45     \* moment(currentStatusDate).add(45, "seconds")
DEFAULT_LIMIT == 25   \* getOrderHistory(..., limit: number = 25, ...)
AFTER_CURSOR == "MTAxNTExOTQ1MjAwNzI5NDE"   \* paging.cursors.after
BEFORE_CURSOR == "NDMyNzQyODI3OTQw"         \* paging.cursors.before

Procs == 1..NumProcs
Users == {"u1", "u2"}
OrderIds == 1..MaxOrders
TickSteps == {PENDING_TTL, OPEN_TTL}
Limits == {0, 1, DEFAULT_LIMIT}
Cursors == {"", AFTER_CURSOR}
TokenIds == {"t1"}
\* the amounts of earn orders: a small one, and one that alone is the limit
Amounts == {1, EarnLimit}
BearerTokens == TokenIds \cup {"", "unknown"}
\* wallet_address of a request body: missing, or a string of some length
WalletAddresses ==
    {<<>>} \cup {<<[name |-> n, length |-> l]>> :
                    n \in {"GA", "GB"}, l \in {0, 55, 56, 57}}
Wallets == {"W1", "W2"}
AppIds == {"kik"}

VARIABLES
    orders,     \* the orders table: id -> row, for the ids that have a row
    nextId,     \* ids handed out so far + 1 (generateId never repeats)
    now,        \* new Date(), seconds
    ticks,      \* clock advances so far
    pc,         \* per request: the await it is suspended at
    req,        \* per request: the operation and its arguments
    loc,        \* per request: its in-memory order entity, <<>> when none
    out,        \* the response the last step produced, if it produced one
    bgSaves,    \* order.save() promises nobody awaits, not yet executed
    payCount,   \* order id -> number of payment.payTo calls for it
    started,    \* requests served or being served
    pendingSaves,  \* order id -> number of persisted transitions to pending
    redis,      \* the key-value store: key -> value and time of expiry
    tokens,     \* the auth tokens table: id -> row
    wallets,    \* per user: the addresses of the user's wallets
    admitted,   \* the checkRate calls admitted so far: bucket, timeliness
    lastHit,    \* per limit: the buckets the last rejected check counted
    allowance,  \* the stored app.config.bulk_user_creation_allowed
    created     \* users created by bulkUserCreation so far

\* the state outside the orders table
side == <<redis, tokens, wallets, admitted, lastHit, allowance, created>>

vars == <<started, orders, nextId, now, ticks, pc, req, loc, out, bgSaves, payCount, pendingSaves, side>>

\* ---------------------------------------------------------------- offers
\* The offers table is read-only for the order engine: an earn offer that
\* one order exhausts and a spend offer that takes two orders, one per user.
OfferIds == {"earn", "spend"}

Offer(f) ==
    IF f = "earn"
    THEN [id |-> f, type |-> "earn", amount |-> 10,
          cap |-> [total |-> 1, per_user |-> 1]]
    ELSE [id |-> f, type |-> "spend", amount |-> 20,
          cap |-> [total |-> 2, per_user |-> 1]]

\* The offer a valid spend JWT of an application carries; it is no row of
\* the offers table.
ExternalOffer == [id |-> "ext", amount |-> 30]

\* ------------------------------------------------------------ the entity
\* the static CLASS_ORIGIN of a variant: null (<<>>) on the abstract Order
CLASS_ORIGIN(variant) ==
    CASE variant = "MarketplaceOrder" -> <<"marketplace">>
      [] variant = "ExternalOrder" -> <<"external">>
      [] OTHER -> <<>>

\* Order.new throws "cannot instantiate Order"
NewThrows(variant) == CLASS_ORIGIN(variant) = <<>>

\* Order.new(data) on a variant that has an origin, at time t: the instance
\* with its creation date, and instance.origin = CLASS_ORIGIN
New(variant, data, t) ==
    [id |-> 0, origin |-> CLASS_ORIGIN(variant)[1], type |-> data.type,
     userId |-> data.userId, offerId |-> data.offerId,
     amount |-> data.amount, status |-> data.status, createdDate |-> t,
     currentStatusDate |-> <<>>, error |-> <<>>, blockchainData |-> <<>>]

\* MarketplaceOrder.new({ userId, offerId, amount: offer.amount,
\* type: offer.type, status: "opened", ... }) at time t
NewOrder(u, f, t) ==
    New("MarketplaceOrder",
        [userId |-> u, offerId |-> f, amount |-> Offer(f).amount,
         type |-> Offer(f).type, status |-> "opened"], t)

\* the external order built by the marketplace variant
NewExternalOrderAsMarketplace(u, offer, t) ==
    New("MarketplaceOrder",
        [userId |-> u, offerId |-> offer.id, amount |-> offer.amount,
         type |-> "spend", status |-> "opened"], t)

\* ExternalOrder.new({ userId, offerId: offer.id, amount: offer.amount,
\* type: "spend", status: "opened", ... }) at time t
NewExternalOrder(u, offer, t) ==
    New("ExternalOrder",
        [userId |-> u, offerId |-> offer.id, amount |-> offer.amount,
         type |-> "spend", status |-> "opened"], t)

setStatus(order, status, t) ==
    [order EXCEPT !.status = status, !.currentStatusDate = <<t>>]

\* the pending deadline counted from the creation
expirationDateFromCreation(order) ==
    CASE order.status = "opened" -> <<order.createdDate + OPEN_TTL>>
      [] order.status = "pending" -> <<order.createdDate + PENDING_TTL>>
      [] OTHER -> <<>>

\* null is <<>>, a date d is <<d>>
expirationDate(order) ==
    CASE order.status = "opened" -> <<order.createdDate + OPEN_TTL>>
      [] order.status = "pending" -> <<order.currentStatusDate[1] + PENDING_TTL>>
      [] OTHER -> <<>>

\* updateQueryWithStatus: "x" keeps status = x, "!x" keeps status # x,
\* no status keeps everything.
StatusMatches(rowStatus, filter) ==
    CASE filter = "" -> TRUE
      [] filter = "!opened" -> rowStatus # "opened"
      [] filter = "!pending" -> rowStatus # "pending"
      [] filter = "!completed" -> rowStatus # "completed"
      [] filter = "!failed" -> rowStatus # "failed"
      [] OTHER -> rowStatus = filter

\* Order.getOne(orderId, status) on the base class (CLASS_ORIGIN null: no
\* origin filter): <<row>> or <<>>.
getOne(orderId, filter) ==
    IF orderId \in DOMAIN orders /\ StatusMatches(orders[orderId].status, filter)
    THEN <<orders[orderId]>>
    ELSE <<>>

\* entity.save(): insert or update the row with the entity's id.
Upsert(tbl, order) ==
    [i \in DOMAIN tbl \cup {order.id} |-> IF i = order.id THEN order ELSE tbl[i]]

\* entity.remove(): delete the row with the entity's id.
Delete(tbl, order) ==
    [i \in DOMAIN tbl \ {order.id} |-> tbl[i]]

\* ------------------------------------------------------------ results
NoRes == [kind |-> "none"]
NoOut == [op |-> "none"]
Err(e) == [kind |-> "error", error |-> e]
Void == [kind |-> "void"]

\* the expiration date taken 45 seconds after the creation
OpenOrderShortLived(order) ==
    [kind |-> "openOrder", id |-> order.id,
     expiration_date |-> order.createdDate + PENDING_TTL]

\* { id, expiration_date } of createMarketplaceOrder
OpenOrder(order) ==
    [kind |-> "openOrder", id |-> order.id,
     expiration_date |-> expirationDate(order)[1]]

\* orderDbToApi: the API projection of a marketplace order; throws on an
\* opened one.
orderDbToApi(order) ==
    IF order.status = "opened"
    THEN Err("opened orders should not be returned")
    ELSE IF order.origin = "marketplace"
    THEN [kind |-> "order", id |-> order.id, offer_id |-> order.offerId,
          status |-> order.status, error |-> order.error,
          completion_date |-> IF order.currentStatusDate # <<>>
                              THEN order.currentStatusDate[1]
                              ELSE order.createdDate,
          amount |-> order.amount, offer_type |-> order.type,
          blockchain_data |-> order.blockchainData]
    ELSE [kind |-> "order", id |-> order.id, offer_id |-> order.offerId,
          status |-> order.status, error |-> order.error,
          completion_date |-> IF order.currentStatusDate # <<>>
                              THEN order.currentStatusDate[1]
                              ELSE order.createdDate,
          amount |-> order.amount,
          blockchain_data |-> <<[recipient_address |-> "wallet"]>>]

\* checkIfTimedOut: the condition under which it flips the entity and
\* issues the save.
TimedOut(order, t) ==
    order.status = "pending" /\ expirationDate(order)[1] < t

\* checkIfTimedOut's effect on the in-memory entity.
checkIfTimedOut(order, t) ==
    IF TimedOut(order, t) THEN setStatus(order, "failed", t) ELSE order

\* --------------------------------------------------------------- queries
\* the status-date column of a row ("completion_date")
RowDate(i) == orders[i].currentStatusDate

\* the oldest status date first
BeforeAscending(i, j) ==
    CASE RowDate(i) = RowDate(j) -> i > j
      [] RowDate(i) = <<>> -> TRUE
      [] RowDate(j) = <<>> -> FALSE
      [] OTHER -> RowDate(i)[1] < RowDate(j)[1]

\* row i comes before row j under ORDER BY completion_date DESC, id DESC
\* (a NULL date sorts first under DESC)
Before(i, j) ==
    CASE RowDate(i) = RowDate(j) -> i > j
      [] RowDate(i) = <<>> -> TRUE
      [] RowDate(j) = <<>> -> FALSE
      [] OTHER -> RowDate(i)[1] > RowDate(j)[1]

RECURSIVE SortIds(_)
SortIds(S) ==
    IF S = {} THEN <<>>
    ELSE LET first == CHOOSE i \in S : \A j \in S \ {i} : Before(i, j)
         IN <<first>> \o SortIds(S \ {first})

Take(seq, n) == IF Len(seq) <= n THEN seq ELSE SubSeq(seq, 1, n)

\* Order.getAll(userId, status, limit): the ids, in result order; a limit of
\* 0 is no limit.
getAll(userId, filter, limit) ==
    LET hits == {i \in DOMAIN orders :
                    /\ orders[i].userId = userId
                    /\ StatusMatches(orders[i].status, filter)}
        sorted == SortIds(hits)
    IN IF limit # 0 THEN Take(sorted, limit) ELSE sorted

\* the count leaves out the failed orders
CountOfferLive(f) ==
    Cardinality({i \in DOMAIN orders :
                    orders[i].offerId = f /\ orders[i].status # "failed"})

\* MarketplaceOrder.count({ where: { offerId } })
CountOffer(f) == Cardinality({i \in DOMAIN orders : orders[i].offerId = f})

\* MarketplaceOrder.count({ where: { userId, offerId } })
CountUserOffer(u, f) ==
    Cardinality({i \in DOMAIN orders :
                    orders[i].offerId = f /\ orders[i].userId = u})

\* the search for an opened order finds nothing
OpenOrdersIgnored(u, f) == {}

\* MarketplaceOrder.findOne({ where: { userId, offerId, status: "opened" } }):
\* the rows it may return
OpenOrdersOf(u, f) ==
    {i \in DOMAIN orders :
        /\ orders[i].userId = u
        /\ orders[i].offerId = f
        /\ orders[i].status = "opened"}

\* ------------------------------------------------------------- requests
NoReq ==
    [op |-> "none", userId |-> "", offerId |-> "", orderId |-> 0,
     limit |-> 0, formValid |-> FALSE, walletAddress |-> "", appId |-> "",
     after |-> "", token |-> "", prefix |-> "", step |-> 0, current |-> 0,
     limitValue |-> 0, windowSize |-> 0, list |-> <<>>, chunkSize |-> 0]

\* the auth tokens issued before the first request: one of user u1, valid
\* until TokenLifetime
IssuedTokens ==
    [t \in TokenIds |->
        [id |-> t, valid |-> TRUE, expireDate |-> TokenLifetime, userId |-> "u1"]]

Init ==
    /\ orders = <<>>
    /\ nextId = 1
    /\ started = 0
    /\ now = 0
    /\ ticks = 0
    /\ pc = [p \in Procs |-> "idle"]
    /\ req = [p \in Procs |-> NoReq]
    /\ loc = [p \in Procs |-> <<>>]
    /\ out = NoOut
    /\ bgSaves = {}
    /\ payCount = [i \in OrderIds |-> 0]
    /\ pendingSaves = [i \in OrderIds |-> 0]
    /\ redis = <<>>
    /\ tokens = IssuedTokens
    /\ wallets = [u \in Users |-> {}]
    /\ admitted = {}
    /\ lastHit = [op \in {"throwOnRateLimit", "checkAppEarnLimit"} |-> <<>>]
    /\ allowance = BulkAllowed
    /\ created = 0

\* request r of slot p ends: it returns or throws `result`, having called
\* payTo with the arguments `paid` in this step (<<>>: no call)
Respond(p, r, result, paid) ==
    /\ pc' = [pc EXCEPT ![p] = "idle"]
    /\ req' = [req EXCEPT ![p] = NoReq]
    /\ loc' = [loc EXCEPT ![p] = <<>>]
    /\ out' = [op |-> r.op, proc |-> p, req |-> r, result |-> result,
               paid |-> paid]

\* request r of slot p ends: it returns or throws `result`
Return(p, r, result) == Respond(p, r, result, <<>>)

\* request r of slot p suspends at the await `label`, holding `entity`
Goto(p, r, label, entity) ==
    /\ pc' = [pc EXCEPT ![p] = label]
    /\ req' = [req EXCEPT ![p] = r]
    /\ loc' = [loc EXCEPT ![p] = entity]
    /\ out' = NoOut

\* A response is handed to the client before the server takes its next
\* step.
Quiet == out = NoOut

Deliver ==
    /\ out # NoOut
    /\ out' = NoOut
    /\ UNCHANGED <<side, started, orders, nextId, now, ticks, pc, req, loc, bgSaves, payCount, pendingSaves>>

\* Request slots are interchangeable: a slot is taken only when the slots
\* before it are taken.
CanStart(p) ==
    /\ Quiet
    /\ pc[p] = "idle"
    /\ \A q \in Procs : q < p => pc[q] # "idle"

\* every request counts towards MaxRequests
Budget(p) ==
    /\ started < MaxRequests
    /\ started' = started + 1

\* the order ids a request may name: the ids handed out and one more
KnownIds == {i \in OrderIds : i <= nextId}

Tick ==
    /\ Quiet
    /\ ticks < MaxTicks
    /\ \E d \in TickSteps : now' = now + d
    /\ ticks' = ticks + 1
    /\ out' = NoOut
    /\ UNCHANGED <<side, started, orders, nextId, pc, req, loc, bgSaves, payCount, pendingSaves>>

\* ----------------------------------------------- createMarketplaceOrder
\* ids the creations in flight will still take
CreatesInFlight ==
    Cardinality({q \in Procs : req[q].op \in {"createMarketplaceOrder",
                                              "createExternalOrder"}})

\* the cap counts as reached only once it is exceeded
TotalCapExceeded(total, offer) == total > offer.cap.total

\* total === offer.cap.total
TotalCapReached(total, offer) == total = offer.cap.total

\* forUser === offer.cap.per_user
UserCapReached(forUser, offer) == forUser = offer.cap.per_user

\* Offer.findOne, then MarketplaceOrder.findOne for an opened order of the
\* user on the offer
CmoFind(p) ==
    /\ CanStart(p)
    /\ nextId + CreatesInFlight <= MaxOrders
    /\ \E u \in Users, f \in OfferIds \cup {"missing"} :
        LET r == [NoReq EXCEPT !.op = "createMarketplaceOrder",
                               !.userId = u, !.offerId = f]
        IN IF f \notin OfferIds
           THEN Return(p, r, Err("offer not found"))
           ELSE IF OpenOrdersOf(u, f) # {}
           THEN \E i \in OpenOrdersOf(u, f) : Return(p, r, OpenOrder(orders[i]))
           ELSE Goto(p, r, "cmo_total", <<>>)
    /\ UNCHANGED <<side, orders, nextId, now, ticks, bgSaves, payCount, pendingSaves>>
    /\ Budget(p)

\* create(): count for the offer
CmoTotal(p) ==
    /\ Quiet
    /\ pc[p] = "cmo_total"
    /\ IF TotalCapReached(CountOffer(req[p].offerId), Offer(req[p].offerId))
       THEN Return(p, req[p], Err("cap reached"))
       ELSE Goto(p, req[p], "cmo_user", <<>>)
    /\ UNCHANGED <<side, started, orders, nextId, now, ticks, bgSaves, payCount, pendingSaves>>

\* create(): count for the user on the offer, then MarketplaceOrder.new
CmoUser(p) ==
    /\ Quiet
    /\ pc[p] = "cmo_user"
    /\ IF UserCapReached(CountUserOffer(req[p].userId, req[p].offerId),
                         Offer(req[p].offerId))
       THEN Return(p, req[p], Err("cap reached"))
       ELSE Goto(p, req[p], "cmo_save",
                 <<NewOrder(req[p].userId, req[p].offerId, now)>>)
    /\ UNCHANGED <<side, started, orders, nextId, now, ticks, bgSaves, payCount, pendingSaves>>

\* create(): order.save(), then the return of { id, expiration_date }
CmoSave(p) ==
    /\ Quiet
    /\ pc[p] = "cmo_save"
    /\ LET order == [loc[p][1] EXCEPT !.id = nextId]
       IN /\ orders' = Upsert(orders, order)
          /\ Return(p, req[p], OpenOrder(order))
    /\ nextId' = nextId + 1
    /\ UNCHANGED <<side, started, now, ticks, bgSaves, payCount, pendingSaves>>

\* -------------------------------------------------- createExternalOrder
\* ExternalOrder.findOne({ where: { userId, status: "opened", offerId } }):
\* the rows it may return
OpenExternalOrdersOf(u, f) ==
    {i \in DOMAIN orders :
        /\ orders[i].userId = u
        /\ orders[i].offerId = f
        /\ orders[i].status = "opened"}

\* validateSpendJWT, then ExternalOrder.findOne for an opened order of the
\* user on the JWT's offer, and ExternalOrder.new when there is none
CeoFind(p) ==
    /\ CanStart(p)
    /\ nextId + CreatesInFlight <= MaxOrders
    /\ \E u \in Users :
        LET r == [NoReq EXCEPT !.op = "createExternalOrder",
                               !.userId = u, !.offerId = ExternalOffer.id]
            open == OpenExternalOrdersOf(u, ExternalOffer.id)
        IN IF open # {}
           THEN \E i \in open : Return(p, r, OpenOrder(orders[i]))
           ELSE Goto(p, r, "ceo_save",
                     <<NewExternalOrder(u, ExternalOffer, now)>>)
    /\ UNCHANGED <<side, orders, nextId, now, ticks, bgSaves, payCount, pendingSaves>>
    /\ Budget(p)

\* await order.save(), then the return of { id, expiration_date }
CeoSave(p) ==
    /\ Quiet
    /\ pc[p] = "ceo_save"
    /\ LET order == [loc[p][1] EXCEPT !.id = nextId]
       IN /\ orders' = Upsert(orders, order)
          /\ Return(p, req[p], OpenOrder(order))
    /\ nextId' = nextId + 1
    /\ UNCHANGED <<side, started, now, ticks, bgSaves, payCount, pendingSaves>>

\* ---------------------------------------------------------- submitOrder
\* a bound of >= in place of >
SubmitExpiredInclusive(order, t) == t >= expirationDate(order)[1]

\* new Date() > order.expirationDate
SubmitExpired(order, t) == t > expirationDate(order)[1]

\* only a completed or failed order is returned as it is
SubmitReturnsTerminalOnly(order) == order.status \in {"completed", "failed"}

\* order.status !== "opened": the order is returned as it is
SubmitReturnsAsIs(order) == order.status # "opened"

\* every offer's form is validated
FormValidatedAlways(offer) == TRUE

\* offer.type === "earn": offerContents.isValid decides
FormValidated(offer) == offer.type = "earn"

\* what submitOrder does with the order it found, up to setStatus:
\* a result, or the entity to save
SubmitCheck(order, formValid, t) ==
    IF SubmitReturnsAsIs(order)
    THEN [result |-> orderDbToApi(order), save |-> <<>>]
    ELSE IF SubmitExpired(order, t)
    THEN [result |-> Err("expired"), save |-> <<>>]
    ELSE IF order.offerId \notin OfferIds
    THEN [result |-> Err("no such offer"), save |-> <<>>]
    ELSE IF FormValidated(Offer(order.offerId)) /\ ~formValid
    THEN [result |-> Err("invalid form"), save |-> <<>>]
    ELSE [result |-> NoRes, save |-> <<setStatus(order, "pending", t)>>]

\* payTo awaited with the order not yet saved
SubmitFirstAwaitPay == "so_pay"

\* the await that follows order.setStatus("pending"): order.save()
SubmitFirstAwait == "so_save"

\* Order.findOne({ id }), the status and expiration checks, Offer.findOne,
\* offerContents.isValid (offers and their contents do not change), and
\* order.setStatus("pending")
SoFind(p) ==
    /\ CanStart(p)
    /\ \E o \in KnownIds, valid \in BOOLEAN, w \in Wallets, a \in AppIds :
        LET r == [NoReq EXCEPT !.op = "submitOrder", !.orderId = o,
                               !.formValid = valid, !.walletAddress = w,
                               !.appId = a]
        IN IF o \notin DOMAIN orders
           THEN Return(p, r, Err("no such order"))
           ELSE LET c == SubmitCheck(orders[o], valid, now)
                IN IF c.save = <<>>
                   THEN Return(p, r, c.result)
                   ELSE Goto(p, r, SubmitFirstAwait, c.save)
    /\ UNCHANGED <<side, orders, nextId, now, ticks, bgSaves, payCount, pendingSaves>>
    /\ Budget(p)

\* payTo is called with the application before the wallet
PayToArgsSwapped(r, offer, order) ==
    <<r.appId, r.walletAddress, offer.amount, order.id>>

\* the arguments of payment.payTo(walletAddress, appId, offer.amount, order.id)
PayToArgs(r, offer, order) ==
    <<r.walletAddress, r.appId, offer.amount, order.id>>

\* offer.type === "earn": submitOrder calls payTo
PaidAtSubmit(offer) == offer.type = "earn"

\* await order.save(); a spend order is returned right after it
SoSave(p) ==
    /\ Quiet
    /\ pc[p] = "so_save"
    /\ orders' = Upsert(orders, loc[p][1])
    /\ pendingSaves' = [pendingSaves EXCEPT ![loc[p][1].id] = @ + 1]
    /\ IF PaidAtSubmit(Offer(loc[p][1].offerId))
       THEN Goto(p, req[p], "so_pay", loc[p])
       ELSE Return(p, req[p], orderDbToApi(loc[p][1]))
    /\ UNCHANGED <<side, started, nextId, now, ticks, bgSaves, payCount>>

\* await payment.payTo(walletAddress, appId, offer.amount, order.id): the
\* call resolves and submitOrder returns the projection, or it rejects and
\* the rejection leaves submitOrder through the await
SoPay(p) ==
    /\ Quiet
    /\ pc[p] = "so_pay"
    /\ payCount' = [payCount EXCEPT ![loc[p][1].id] = @ + 1]
    /\ \E resolved \in BOOLEAN :
          Respond(p, req[p],
                  IF resolved THEN orderDbToApi(loc[p][1])
                              ELSE Err("payment failed"),
                  <<PayToArgs(req[p], Offer(loc[p][1].offerId), loc[p][1])>>)
    /\ UNCHANGED <<side, started, orders, nextId, now, ticks, bgSaves, pendingSaves>>

\* ---------------------------------------------------------- cancelOrder
\* getOne called without a status
CancelFilterNone == ""

\* the status cancelOrder asks getOne for
CancelFilter == "opened"

\* db.Order.getOne(orderId, "opened")
CoGet(p) ==
    /\ CanStart(p)
    /\ \E o \in KnownIds :
        LET r == [NoReq EXCEPT !.op = "cancelOrder", !.orderId = o]
            found == getOne(o, CancelFilter)
        IN IF found = <<>>
           THEN Return(p, r, Err("no such open order"))
           ELSE Goto(p, r, "co_remove", found)
    /\ UNCHANGED <<side, orders, nextId, now, ticks, bgSaves, payCount, pendingSaves>>
    /\ Budget(p)

\* await order.remove()
CoRemove(p) ==
    /\ Quiet
    /\ pc[p] = "co_remove"
    /\ orders' = Delete(orders, loc[p][1])
    /\ Return(p, req[p], Void)
    /\ UNCHANGED <<side, started, nextId, now, ticks, bgSaves, payCount, pendingSaves>>

\* checkIfTimedOut issues no save
TimeoutSavesNone(read, t) == {}

\* ----------------------------------------------- getOrder, getOrderHistory
\* the saves checkIfTimedOut issues for the entities read
TimeoutSaves(read, t) ==
    {checkIfTimedOut(order, t) : order \in {r \in read : TimedOut(r, t)}}

\* the projection taken before the timeout check
GetOrderResultUnchecked(order, t) == orderDbToApi(order)

\* getOrder's return value for the entity read
GetOrderResult(order, t) == orderDbToApi(checkIfTimedOut(order, t))

\* getOne called without a status
GetOrderFilterNone == ""

\* the status getOrder asks getOne for
GetOrderFilter == "!opened"

\* db.Order.getOne(orderId, "!opened"), checkIfTimedOut (its save is not
\* awaited), orderDbToApi
GoGet(p) ==
    /\ CanStart(p)
    /\ \E o \in KnownIds :
        LET r == [NoReq EXCEPT !.op = "getOrder", !.orderId = o]
            found == getOne(o, GetOrderFilter)
        IN IF found = <<>>
           THEN /\ Return(p, r, Err("no such order or order is open"))
                /\ bgSaves' = bgSaves
           ELSE /\ bgSaves' = bgSaves \cup TimeoutSaves({found[1]}, now)
                /\ Return(p, r, GetOrderResult(found[1], now))
    /\ UNCHANGED <<side, orders, nextId, now, ticks, payCount, pendingSaves>>
    /\ Budget(p)

\* getOrderHistory's orders for the rows read, and its paging
HistoryResult(ids, t) ==
    IF \E k \in 1..Len(ids) : orders[ids[k]].status = "opened"
    THEN Err("opened orders should not be returned")
    ELSE [kind |-> "orderList",
          orders |-> [k \in 1..Len(ids) |-> GetOrderResult(orders[ids[k]], t)],
          paging |-> [after |-> AFTER_CURSOR, before |-> BEFORE_CURSOR]]

\* getAll called without a status
HistoryFilterNone == ""

\* the status getOrderHistory asks getAll for
HistoryFilter == "!opened"

\* db.Order.getAll(userId, "!opened", limit), then checkIfTimedOut and
\* orderDbToApi on each
OhGet(p) ==
    /\ CanStart(p)
    /\ \E u \in Users, l \in Limits, c \in Cursors :
        LET r == [NoReq EXCEPT !.op = "getOrderHistory", !.userId = u,
                               !.limit = l, !.after = c]
            ids == getAll(u, HistoryFilter, l)
        IN /\ bgSaves' = bgSaves \cup
                  TimeoutSaves({orders[ids[k]] : k \in 1..Len(ids)}, now)
           /\ Return(p, r, HistoryResult(ids, now))
    /\ UNCHANGED <<side, orders, nextId, now, ticks, payCount, pendingSaves>>
    /\ Budget(p)

\* the store executes a save that checkIfTimedOut issued
BgSaveRun ==
    /\ Quiet
    /\ \E s \in bgSaves :
        /\ orders' = Upsert(orders, s)
        /\ bgSaves' = bgSaves \ {s}
        /\ out' = NoOut
        /\ UNCHANGED <<side, started, nextId, now, ticks, pc, req, loc, payCount, pendingSaves>>

\* the save fails: its rejection is dropped with the promise
BgSaveFail ==
    /\ Quiet
    /\ \E s \in bgSaves :
        /\ bgSaves' = bgSaves \ {s}
        /\ out' = NoOut
        /\ UNCHANGED <<side, started, orders, nextId, now, ticks, pc, req, loc, payCount, pendingSaves>>

\* ------------------------------------------------ payment confirmation
\* The confirmation path of the payment service: a pending order becomes
\* completed, with its blockchain data, or failed, with an error.

\* An earn order is paid by payTo, a spend order by the client.
PaymentExpected(i) ==
    /\ orders[i].status = "pending"
    /\ orders[i].type = "earn" => payCount[i] > 0

PaymentComplete ==
    /\ Quiet
    /\ \E i \in DOMAIN orders :
        /\ PaymentExpected(i)
        /\ orders' = [orders EXCEPT ![i] =
                 [setStatus(@, "completed", now) EXCEPT
                     !.blockchainData = <<[transaction_id |-> "tx"]>>]]
        /\ out' = NoOut
        /\ UNCHANGED <<side, started, nextId, now, ticks, pc, req, loc, bgSaves, payCount, pendingSaves>>

PaymentFailed ==
    /\ Quiet
    /\ \E i \in DOMAIN orders :
        /\ PaymentExpected(i)
        /\ orders' = [orders EXCEPT ![i] =
                 [setStatus(@, "failed", now) EXCEPT
                     !.error = <<[code |-> 2, error |-> "TransactionFailed",
                                  message |-> "payment failed"]>>]]
        /\ out' = NoOut
        /\ UNCHANGED <<side, started, nextId, now, ticks, pc, req, loc, bgSaves, payCount, pendingSaves>>

\* ----------------------------------------------------------------- spec
\* the steps of the requests of slot p
Request(p) ==
    \/ CmoFind(p) \/ CmoTotal(p) \/ CmoUser(p) \/ CmoSave(p)
    \/ SoFind(p) \/ SoSave(p) \/ SoPay(p)
    \/ CoGet(p) \/ CoRemove(p)
    \/ GoGet(p)
    \/ OhGet(p)

\* ---------------------------------------------------------- rate limits
\* the windows of the two limits, in seconds
REGISTRATION_WINDOW == 60
EARN_WINDOW == 300

\* throwOnRateLimit(appId, type, limit, duration) counts calls, and
\* checkAppEarnLimit(appId, type, limit, duration, amount) amounts, under
\* their own bucket prefix
Throttles ==
    {[op |-> "throwOnRateLimit", prefix |-> "rate_limit:kik:register:",
      limitValue |-> RegistrationLimit, windowSize |-> REGISTRATION_WINDOW,
      steps |-> {1}, error |-> "TooManyRegistrations"],
     [op |-> "checkAppEarnLimit", prefix |-> "amount_limit:kik:earn:",
      limitValue |-> EarnLimit, windowSize |-> EARN_WINDOW,
      steps |-> Amounts, error |-> "TooMuchEarnOrdered"]}

\* Math.max(this.windowSize / 60, 1), for a window of less than a minute or
\* of whole minutes
bucketSize(windowSize) ==
    IF windowSize \div 60 > 1 THEN windowSize \div 60 ELSE 1

\* Math.floor((Date.now() / 1000) / bucketSize) * bucketSize
currentTimestampSeconds(t, windowSize) ==
    (t \div bucketSize(windowSize)) * bucketSize(windowSize)

\* this.ttl = this.windowSize * 10
ttl(windowSize) == windowSize * 10

\* a key of the store: a prefix and the rest
Key(prefix, rest) == <<prefix, rest>>

\* the keys of the store that have not expired
LiveKeys == {k \in DOMAIN redis : now < redis[k].expireAt}

\* GET key: <<>> for a key that is absent or has expired
RedisGet(key) == IF key \in LiveKeys THEN <<redis[key].value>> ELSE <<>>

\* the store with `value` under key, expiring at `expireAt`
RedisPut(key, value, expireAt) ==
    [k \in LiveKeys \cup {key} |->
        IF k = key THEN [value |-> value, expireAt |-> expireAt] ELSE redis[k]]

\* the store without key
RedisDel(key) == [k \in LiveKeys \ {key} |-> redis[k]]

\* the window reaches back over three window lengths
WindowSpanLong(windowSize) == windowSize * 3

\* the window is the current bucket alone
WindowSpanShort(windowSize) == bucketSize(windowSize)

\* for (let i = 0; i < this.windowSize; i += bucketSize)
WindowSpan(windowSize) == windowSize

\* windowKeys: the current timestamp without the prefix, then the buckets of
\* the window from the current one back
windowKeys(prefix, current, windowSize) ==
    LET b == bucketSize(windowSize)
        n == (WindowSpan(windowSize) + b - 1) \div b
    IN <<Key("", current)>> \o
       [k \in 1..n |-> Key(prefix, current - (k - 1) * b)]

\* mget(...windowKeys).filter(val => val).reduce((sum, val) => sum + Number(val), 0):
\* the sum over the positions I of the keys that hold a value
RECURSIVE SumAt(_, _)
SumAt(keys, I) ==
    IF I = {} THEN 0
    ELSE LET k == CHOOSE x \in I : TRUE
         IN RedisGet(keys[k])[1] + SumAt(keys, I \ {k})

rateSum(prefix, current, windowSize) ==
    LET keys == windowKeys(prefix, current, windowSize)
    IN SumAt(keys, {k \in 1..Len(keys) : RedisGet(keys[k]) # <<>>})

\* the limit counts as hit only once it is exceeded
RateLimitExceeded(sum, limitValue) == sum > limitValue

\* the limit is hit by what was counted before the check's own step
RateLimitHitBefore(sum, limitValue) == sum - 1 >= limitValue

\* return rateSum >= this.rateLimitValue
RateLimitHit(sum, limitValue) == sum >= limitValue

\* check(step) up to its first await: incrby on the current bucket, and the
\* expire command that follows it on the same connection
RlIncr(p) ==
    /\ CanStart(p)
    /\ \E th \in Throttles :
        \E s \in th.steps :
            LET current == currentTimestampSeconds(now, th.windowSize)
                key == Key(th.prefix, current)
                old == RedisGet(key)
                r == [NoReq EXCEPT !.op = th.op, !.prefix = th.prefix,
                                   !.step = s, !.current = current,
                                   !.limitValue = th.limitValue,
                                   !.windowSize = th.windowSize]
            IN /\ redis' = RedisPut(key,
                                    (IF old = <<>> THEN 0 ELSE old[1]) + s,
                                    now + ttl(th.windowSize))
               /\ Goto(p, r, "rl_mget", <<>>)
    /\ UNCHANGED <<orders, nextId, now, ticks, bgSaves, payCount, pendingSaves,
                   tokens, wallets, admitted, lastHit, allowance, created>>
    /\ Budget(p)

\* check(step) from mget on; throwOnRateLimit and checkAppEarnLimit throw
\* when it returns true
RlMget(p) ==
    /\ Quiet
    /\ pc[p] = "rl_mget"
    /\ LET th == CHOOSE t \in Throttles : t.op = req[p].op
           sum == rateSum(req[p].prefix, req[p].current, req[p].windowSize)
           \* the buckets of the window that hold a value, and the oldest
           counted == {k[2] : k \in {x \in LiveKeys :
                                        /\ x[1] = req[p].prefix
                                        /\ x[2] <= req[p].current
                                        /\ x[2] > req[p].current
                                                      - req[p].windowSize}}
           oldest == CHOOSE b \in counted : \A c \in counted : b <= c
           call == [current |-> req[p].current,
                    timely |-> now < req[p].current + ttl(req[p].windowSize)
                                         - req[p].windowSize]
       IN IF RateLimitHit(sum, req[p].limitValue)
          THEN /\ Return(p, req[p], Err(th.error))
               /\ admitted' = admitted
               /\ lastHit' = [lastHit EXCEPT ![req[p].op] =
                                 <<[from |-> oldest, to |-> req[p].current]>>]
          ELSE /\ Return(p, req[p], Void)
               /\ lastHit' = lastHit
               /\ admitted' =
                      IF req[p].op # "throwOnRateLimit" THEN admitted
                      ELSE admitted \cup
                           {[call |-> call,
                             n |-> 1 + Cardinality({a \in admitted :
                                                      a.call = call})]}
    /\ UNCHANGED <<redis, tokens, wallets, started, orders, nextId, now, ticks,
                   bgSaves, payCount, pendingSaves, allowance, created>>

\* ---------------------------------------------------------------- users
\* const tokenCacheTTL = 15 * 60
tokenCacheTTL == 900

\* the length of a wallet address
WALLET_ADDRESS_LENGTH == 56

\* only a missing or empty address is refused
WalletAddressMissing(walletAddress) ==
    walletAddress = <<>> \/ walletAddress[1].length = 0

\* !walletAddress || walletAddress.length !== 56
InvalidWalletAddress(walletAddress) ==
    \/ walletAddress = <<>>
    \/ walletAddress[1].length = 0
    \/ walletAddress[1].length # WALLET_ADDRESS_LENGTH

\* updateUserService(user, { deviceId, walletAddress }): the address is
\* among the user's wallets afterwards
updateUserService(u, walletAddress) ==
    [wallets EXCEPT ![u] = @ \cup {walletAddress[1]}]

\* updateUser up to its await: the check of wallet_address
UuCheck(p) ==
    /\ CanStart(p)
    /\ \E u \in Users, w \in WalletAddresses :
        LET r == [NoReq EXCEPT !.op = "updateUser", !.userId = u,
                               !.walletAddress = w]
        IN IF InvalidWalletAddress(w)
           THEN Return(p, r, Err("InvalidWalletAddress"))
           ELSE Goto(p, r, "uu_update", w)
    /\ UNCHANGED <<side, orders, nextId, now, ticks, bgSaves, payCount,
                   pendingSaves>>
    /\ Budget(p)

\* await updateUserService(...); res.status(204).send()
UuUpdate(p) ==
    /\ Quiet
    /\ pc[p] = "uu_update"
    /\ wallets' = updateUserService(req[p].userId, loc[p])
    /\ Return(p, req[p], Void)
    /\ UNCHANGED <<started, orders, nextId, now, ticks, bgSaves, payCount,
                   pendingSaves, redis, tokens, admitted, lastHit, allowance,
                   created>>

\* token.isExpired()
isExpired(token, t) == t > token.expireDate

\* [token, user] of getTokenAndUser
Authenticated(token, user) == [kind |-> "auth", token |-> token, user |-> user]

\* getTokenAndUser up to the answer of redis.get(`token:${ req.token }`): a
\* cached value is returned as it is
AuGet(p) ==
    /\ CanStart(p)
    /\ \E t \in BearerTokens :
        LET r == [NoReq EXCEPT !.op = "getTokenAndUser", !.token = t]
            value == RedisGet(Key("token:", t))
        IN IF t = ""
           THEN Return(p, r, Err("MissingToken"))
           ELSE IF value # <<>>
           THEN Return(p, r, Authenticated(value[1].token, value[1].user))
           ELSE Goto(p, r, "au_find", <<>>)
    /\ UNCHANGED <<side, orders, nextId, now, ticks, bgSaves, payCount,
                   pendingSaves>>
    /\ Budget(p)

\* AuthToken.findOneById and its checks, then User.findOneById (the users
\* do not change)
AuFind(p) ==
    /\ Quiet
    /\ pc[p] = "au_find"
    /\ LET t == req[p].token
       IN IF \/ t \notin DOMAIN tokens
             \/ ~tokens[t].valid
             \/ isExpired(tokens[t], now)
          THEN Return(p, req[p], Err("InvalidToken"))
          ELSE IF tokens[t].userId \notin Users
          THEN Return(p, req[p], Err("TOSMissingOrOldToken"))
          ELSE Goto(p, req[p], "au_setex", <<tokens[t]>>)
    /\ UNCHANGED <<side, started, orders, nextId, now, ticks, bgSaves, payCount,
                   pendingSaves>>

\* redis.setex(`token:${ req.token }`, tokenCacheTTL, JSON.stringify({ token, user }))
AuSetex(p) ==
    /\ Quiet
    /\ pc[p] = "au_setex"
    /\ LET token == loc[p][1]
       IN /\ redis' = RedisPut(Key("token:", req[p].token),
                               [token |-> token, user |-> token.userId],
                               now + tokenCacheTTL)
          /\ Return(p, req[p], Authenticated(token, token.userId))
    /\ UNCHANGED <<started, orders, nextId, now, ticks, bgSaves, payCount,
                   pendingSaves, tokens, wallets, admitted, lastHit, allowance,
                   created>>

\* logoutUser of an authenticated request: logoutService(user, token)
\* leaves the token invalid; it may or may not delete the cached copy
Logout(p) ==
    /\ CanStart(p)
    /\ \E t \in TokenIds :
        LET r == [NoReq EXCEPT !.op = "logoutUser", !.token = t,
                               !.userId = tokens[t].userId]
        IN /\ tokens[t].valid
           /\ tokens' = [tokens EXCEPT ![t].valid = FALSE]
           /\ redis' \in {redis, RedisDel(Key("token:", t))}
           /\ Return(p, r, Void)
    /\ UNCHANGED <<orders, nextId, now, ticks, bgSaves, payCount, pendingSaves,
                   wallets, admitted, lastHit, allowance, created>>
    /\ Budget(p)

\* requests and payment confirmations, the clock standing still
NextNoClock ==
    \/ Deliver
    \/ PaymentComplete
    \/ PaymentFailed
    \/ \E p \in Procs : Request(p)

Next ==
    \/ Tick
    \/ BgSaveRun
    \/ BgSaveFail
    \/ NextNoClock

Spec == Init /\ [][Next]_vars

\* one request at a time, with the clock, the un-awaited saves and the
\* payment confirmations running beside it
NextSeq ==
    \/ Deliver
    \/ Tick
    \/ BgSaveRun
    \/ BgSaveFail
    \/ PaymentComplete
    \/ PaymentFailed
    \/ Request(1)

SpecSeq == Init /\ [][NextSeq]_vars

SpecNoClock == Init /\ [][NextNoClock]_vars

\* one request at a time, the orders of applications (external orders)
\* among them, the clock standing still
NextExt ==
    \/ Deliver
    \/ PaymentComplete
    \/ PaymentFailed
    \/ Request(1)
    \/ CeoFind(1)
    \/ CeoSave(1)

SpecExt == Init /\ [][NextExt]_vars

\* one request at a time on orders of both origins, with the clock, the
\* un-awaited saves running beside it
NextBoth ==
    \/ Deliver
    \/ Tick
    \/ BgSaveRun
    \/ CmoFind(1) \/ CmoTotal(1) \/ CmoUser(1) \/ CmoSave(1)
    \/ CeoFind(1) \/ CeoSave(1)
    \/ SoFind(1) \/ SoSave(1) \/ SoPay(1)
    \/ CoGet(1) \/ CoRemove(1)
    \/ GoGet(1)

SpecBoth == Init /\ [][NextBoth]_vars

\* The life of an order up to its lazy timeout, one request at a time:
\* creation, submission, the reads, the clock and the payment completing,
\* where every save that checkIfTimedOut issued is executed by the store and
\* every response is delivered.
NextLive ==
    \/ Deliver
    \/ Tick
    \/ BgSaveRun
    \/ PaymentComplete
    \/ CmoFind(1) \/ CmoTotal(1) \/ CmoUser(1) \/ CmoSave(1)
    \/ SoFind(1) \/ SoSave(1) \/ SoPay(1)
    \/ GoGet(1)
    \/ OhGet(1)

SpecLive ==
    Init /\ [][NextLive]_vars /\ WF_vars(Deliver) /\ WF_vars(BgSaveRun)

\* checks of the rate limits, two at a time, with the clock
NextRate ==
    \/ Deliver
    \/ Tick
    \/ RlIncr(1) \/ RlMget(1)
    \/ RlIncr(2) \/ RlMget(2)

SpecRate == Init /\ [][NextRate]_vars

\* the users' requests, two at a time, with the clock
NextUsers ==
    \/ Deliver
    \/ Tick
    \/ UuCheck(1) \/ UuUpdate(1)
    \/ UuCheck(2) \/ UuUpdate(2)
    \/ AuGet(1) \/ AuFind(1) \/ AuSetex(1)
    \/ AuGet(2) \/ AuFind(2) \/ AuSetex(2)
    \/ Logout(1) \/ Logout(2)

SpecUsers == Init /\ [][NextUsers]_vars

\* ------------------------------------------------ batch, bulkUserCreation
\* Positions and chunk sizes are counted in tenths, the chunk size of
\* bulkUserCreation being a multiple of 0.7.

\* the lists handed to batch: element k makes the chunk callback's promise
\* for it resolve (TRUE) or reject (FALSE)
Lists == UNION {[1..n -> BOOLEAN] : n \in 0..MaxList}

\* the chunk sizes batch is called with: 0, 1 and 2 elements
ChunkSizes == {0, 10, 20}

\* const butchSize = app.config.limits.minute_registration * 0.7
butchSize == MinuteRegistration * 7

\* ToInteger of a non-negative number, as Array.prototype.slice applies it
ToInteger(x10) == x10 \div 10

Min(a, b) == IF a <= b THEN a ELSE b

\* list.slice(from, to) of a list of n elements: the positions it returns,
\* counted from 1, in list order
slice(n, from10, to10) ==
    LET lo == Min(ToInteger(from10), n)
        hi == Min(ToInteger(to10), n)
    IN [k \in 1..(IF hi > lo THEN hi - lo ELSE 0) |-> lo + k]

Range(seq) == {seq[k] : k \in 1..Len(seq)}

\* if (end > list.length - 1)
IsLastChunk(n, index10, end10) == end10 > (n - 1) * 10

\* the state of a batch call before runner(0); allowedCreations is the
\* caller's local variable
NewBatch(allowedCreations) ==
    [index |-> 0, last |-> FALSE, running |-> {}, failed |-> FALSE,
     chunks |-> <<>>, allowedCreations |-> allowedCreations]

\* runner(index) up to its call of chunkCb: the chunk is list.slice(index)
\* when it is the last one and list.slice(index, end) otherwise; `chunks`
\* records the first MaxChunks chunks passed
runner(b, n, chunkSize, index10) ==
    LET end == index10 + chunkSize
        last == IsLastChunk(n, index10, end)
        items == IF last THEN slice(n, index10, n * 10)
                         ELSE slice(n, index10, end)
    IN [b EXCEPT !.index = IF last THEN index10 ELSE end,
                 !.last = last,
                 !.running = Range(items),
                 !.failed = FALSE,
                 !.chunks = IF Len(@) < MaxChunks
                            THEN Append(@, [first |-> index10, items |-> items])
                            ELSE @]

\* resolve(): a plain batch call returns; bulkUserCreation goes on to
\* app.config.bulk_user_creation_allowed = allowedCreations; app.save()
Resolve(p, r, b) ==
    IF r.op = "batch"
    THEN Return(p, r, [kind |-> "resolved", chunks |-> b.chunks])
    ELSE Goto(p, r, "bu_save", <<b>>)

\* what follows a step of the batch call of slot p: the chunk callback is
\* still running, or its promise has rejected (no then-callback runs), or it
\* has resolved and the then-callback resolves the batch or sets the timer
Continue(p, r, b) ==
    IF b.running # {} \/ b.failed THEN Goto(p, r, "ba_chunk", <<b>>)
    ELSE IF b.last THEN Resolve(p, r, b)
    ELSE Goto(p, r, "ba_timer", <<b>>)

\* batch(list, chunkSize, delay, chunkCb) with a callback that awaits a
\* promise per element: runner(0)
BatchCall(p) ==
    /\ CanStart(p)
    /\ \E list \in Lists, cs \in ChunkSizes :
        LET r == [NoReq EXCEPT !.op = "batch", !.list = list, !.chunkSize = cs]
        IN Continue(p, r, runner(NewBatch(0), Len(list), cs, 0))
    /\ UNCHANGED <<side, orders, nextId, now, ticks, bgSaves, payCount, pendingSaves>>
    /\ Budget(p)

\* bulkUserCreation up to the first chunk: Application.get, the check of
\* the allowance against jwtList.length, and batch(jwtList, butchSize, ...)
BuGet(p) ==
    /\ CanStart(p)
    /\ \E list \in Lists \ {<<>>} :
        LET r == [NoReq EXCEPT !.op = "bulkUserCreation", !.list = list,
                               !.chunkSize = butchSize]
            allowedCreations == allowance
        IN IF allowedCreations = 0 \/ allowedCreations < Len(list)
           THEN Return(p, r, Err("BulkUserCreation"))
           ELSE Continue(p, r, runner(NewBatch(allowedCreations), Len(list),
                                      butchSize, 0))
    /\ UNCHANGED <<side, orders, nextId, now, ticks, bgSaves, payCount, pendingSaves>>
    /\ Budget(p)

\* the promise of one element of the running chunk settles. In
\* bulkUserCreation it rejects on a JWT that is invalid or of another
\* application, before registerUser; otherwise the user is registered and
\* updated and allowedCreations-- runs. The other elements of a chunk go on
\* after a rejection.
ItemDone(p) ==
    /\ Quiet
    /\ pc[p] = "ba_chunk"
    /\ \E k \in loc[p][1].running :
        LET ok == req[p].list[k]
            creates == ok /\ req[p].op = "bulkUserCreation"
            b == [loc[p][1] EXCEPT
                     !.running = @ \ {k},
                     !.failed = @ \/ ~ok,
                     !.allowedCreations = IF creates THEN @ - 1 ELSE @]
        IN /\ created' = IF creates THEN created + 1 ELSE created
           /\ Continue(p, req[p], b)
    /\ UNCHANGED <<redis, tokens, wallets, admitted, lastHit, allowance,
                   started, orders, nextId, now, ticks, bgSaves, payCount,
                   pendingSaves>>

\* setTimeout(runner.bind(runner, end), delay) fires: runner(end)
TimerFires(p) ==
    /\ Quiet
    /\ pc[p] = "ba_timer"
    /\ Continue(p, req[p], runner(loc[p][1], Len(req[p].list),
                                  req[p].chunkSize, loc[p][1].index))
    /\ UNCHANGED <<side, started, orders, nextId, now, ticks, bgSaves, payCount, pendingSaves>>

\* await app.save() with app.config.bulk_user_creation_allowed =
\* allowedCreations, then res.status(200).end()
BuSave(p) ==
    /\ Quiet
    /\ pc[p] = "bu_save"
    /\ allowance' = loc[p][1].allowedCreations
    /\ Return(p, req[p], [kind |-> "status", code |-> 200])
    /\ UNCHANGED <<redis, tokens, wallets, admitted, lastHit, created,
                   started, orders, nextId, now, ticks, bgSaves, payCount,
                   pendingSaves>>

\* bulk requests of one application, two at a time
NextBulk ==
    \/ Deliver
    \/ BuGet(1) \/ ItemDone(1) \/ TimerFires(1) \/ BuSave(1)
    \/ BuGet(2) \/ ItemDone(2) \/ TimerFires(2) \/ BuSave(2)

SpecBulk == Init /\ [][NextBulk]_vars

\* batch calls, one at a time; a promise that is awaited settles and a timer
\* that is set fires
NextBatch ==
    \/ Deliver
    \/ BatchCall(1)
    \/ ItemDone(1)
    \/ TimerFires(1)

SpecBatch ==
    /\ Init
    /\ [][NextBatch]_vars
    /\ WF_vars(Deliver)
    /\ WF_vars(ItemDone(1))
    /\ WF_vars(TimerFires(1))

\* ------------------------------------------------- the history of a store
\* The rows a store holds when requests have come one at a time: created at
\* time 0, opened, or with a status set at time 0 or 45.
StoredRows ==
    {[NewOrder(u, f, 0) EXCEPT
         !.status = st,
         !.currentStatusDate = IF st = "opened" THEN <<>> ELSE <<d>>,
         !.blockchainData = IF st = "completed"
                            THEN <<[transaction_id |-> "tx"]>> ELSE <<>>] :
        u \in Users, f \in OfferIds,
        st \in {"opened", "pending", "completed", "failed"},
        d \in {0, PENDING_TTL}}

\* the stores of up to MaxRows such rows, row i under id i, within the
\* offers' caps
Stores ==
    {tbl \in UNION {[1..n -> StoredRows] : n \in 0..MaxRows} :
        /\ \A i \in DOMAIN tbl :
              (tbl[i].status = "opened" => tbl[i].currentStatusDate = <<>>)
        /\ \A f \in OfferIds :
              Cardinality({i \in DOMAIN tbl : tbl[i].offerId = f})
                  <= Offer(f).cap.total
        /\ \A u \in Users, f \in OfferIds :
              Cardinality({i \in DOMAIN tbl :
                              tbl[i].offerId = f /\ tbl[i].userId = u})
                  <= Offer(f).cap.per_user}

\* a store of orders, one second after the 45 seconds of the orders that
\* became pending at time 0
InitHistory ==
    /\ \E tbl \in Stores :
          /\ orders = [i \in DOMAIN tbl |-> [tbl[i] EXCEPT !.id = i]]
          /\ nextId = Len(tbl) + 1
    /\ started = 0
    /\ now = PENDING_TTL + 1
    /\ ticks = 0
    /\ pc = [p \in Procs |-> "idle"]
    /\ req = [p \in Procs |-> NoReq]
    /\ loc = [p \in Procs |-> <<>>]
    /\ out = NoOut
    /\ bgSaves = {}
    /\ payCount = [i \in OrderIds |-> 0]
    /\ pendingSaves = [i \in OrderIds |-> 0]
    /\ redis = <<>>
    /\ tokens = IssuedTokens
    /\ wallets = [u \in Users |-> {}]
    /\ admitted = {}
    /\ lastHit = [op \in {"throwOnRateLimit", "checkAppEarnLimit"} |-> <<>>]
    /\ allowance = BulkAllowed
    /\ created = 0

\* getOrderHistory calls, one at a time, on such a store
NextHistory ==
    \/ Deliver
    \/ OhGet(1)
    \/ BgSaveRun
    \/ BgSaveFail

SpecHistory == InitHistory /\ [][NextHistory]_vars

\* --------------------------------------------------------------- claims
Terminal == {"completed", "failed"}
NotOpened == {"pending", "completed", "failed"}

\* in this step slot p begins request `op` on order o (its first read)
BeginsOn(p, op, o) ==
    /\ pc[p] = "idle"
    /\ started' = started + 1
    /\ \/ pc'[p] # "idle" /\ req'[p].op = op /\ req'[p].orderId = o
       \/ pc'[p] = "idle" /\ out'.op = op /\ out'.proc = p /\ out'.req.orderId = o

\* in this step slot p returns or throws from request `op`
Returns(p, op) ==
    /\ out'.op = op
    /\ out'.proc = p
    /\ pc'[p] = "idle"
    /\ \/ pc[p] # "idle"
       \/ started' = started + 1

\* C1: the number of persisted marketplace orders of an offer never exceeds
\* the offer's cap.total.
C1_TotalCapNeverExceeded ==
    \A f \in OfferIds : CountOffer(f) <= Offer(f).cap.total

\* C2: the number of persisted marketplace orders of one user on one offer
\* never exceeds the offer's cap.per_user.
C2_UserCapNeverExceeded ==
    \A u \in Users, f \in OfferIds :
        CountUserOffer(u, f) <= Offer(f).cap.per_user

\* C3: at most one opened marketplace order exists per (userId, offerId).
C3_OneOpenOrderPerUserOffer ==
    \A u \in Users, f \in OfferIds : Cardinality(OpenOrdersOf(u, f)) <= 1

\* C4: for every order at most one transition to pending is persisted and
\* payTo is invoked at most once.
C4_SubmitTakesEffectOnce ==
    \A i \in OrderIds : pendingSaves[i] <= 1 /\ payCount[i] <= 1

\* C5: once an order's persisted status is completed or failed, no step
\* changes its persisted status, error or blockchainData.
C5_TerminalNeverMutated ==
    [][\A i \in DOMAIN orders :
          (orders[i].status \in Terminal /\ i \in DOMAIN orders') =>
              /\ orders'[i].status = orders[i].status
              /\ orders'[i].error = orders[i].error
              /\ orders'[i].blockchainData = orders[i].blockchainData]_vars

\* C6: a row is removed from the store only while its persisted status is
\* opened.
C6_RemovedOnlyWhileOpened ==
    [][\A i \in DOMAIN orders :
          i \notin DOMAIN orders' => orders[i].status = "opened"]_vars

\* C7: cancelOrder called on an order whose status is pending, completed or
\* failed throws and leaves the store as it was.
C7_CancelGuard ==
    [][\A p \in Procs, o \in DOMAIN orders :
          (BeginsOn(p, "cancelOrder", o) /\ orders[o].status \in NotOpened) =>
              /\ Returns(p, "cancelOrder")
              /\ out'.result.kind = "error"
              /\ orders' = orders]_vars

C7_Witness ==
    /\ out.op = "cancelOrder"
    /\ out.result.kind = "error"
    /\ out.req.orderId \in DOMAIN orders
    /\ orders[out.req.orderId].status = "pending"

\* a pending row read at time t, later than currentStatusDate + 45 seconds
PastPendingDeadline(row, t) ==
    /\ row.status = "pending"
    /\ t > row.currentStatusDate[1] + PENDING_TTL

\* C8: getOrder and getOrderHistory return status failed for every pending
\* order they read after currentStatusDate + 45 seconds, and they return
\* before the save of that status has reached the store.
C8_LazyTimeoutProjection ==
    [][\A p \in Procs :
          /\ \A o \in DOMAIN orders :
                (BeginsOn(p, "getOrder", o) /\ PastPendingDeadline(orders[o], now)) =>
                    /\ Returns(p, "getOrder")
                    /\ out'.result.kind = "order"
                    /\ out'.result.id = o
                    /\ out'.result.status = "failed"
                    /\ orders' = orders
          /\ (pc[p] = "idle" /\ Returns(p, "getOrderHistory")) =>
                /\ out'.result.kind = "orderList"
                /\ \A k \in 1..Len(out'.result.orders) :
                      PastPendingDeadline(orders[out'.result.orders[k].id], now)
                          => out'.result.orders[k].status = "failed"
                /\ orders' = orders]_vars

C8_Witness ==
    /\ out.op \in {"getOrder", "getOrderHistory"}
    /\ \E i \in DOMAIN orders :
          /\ PastPendingDeadline(orders[i], now)
          /\ IF out.op = "getOrder"
             THEN out.result.kind = "order" /\ out.result.id = i
                  /\ out.result.status = "failed"
             ELSE \E k \in 1..Len(out.result.orders) :
                      /\ out.result.orders[k].id = i
                      /\ out.result.orders[k].status = "failed"

\* C9: submitOrder on an order whose status is pending, completed or failed
\* returns the projection of the persisted order, changes nothing in the
\* store and does not call payTo; the first submitOrder returned the status
\* and date it persisted, so a second one right after it returns the same.
C9_ResubmitIsNoOp ==
    [][\A p \in Procs :
          /\ \A o \in DOMAIN orders :
                (BeginsOn(p, "submitOrder", o) /\ orders[o].status \in NotOpened) =>
                    /\ Returns(p, "submitOrder")
                    /\ out'.result.kind = "order"
                    /\ out'.result.id = o
                    /\ out'.result.status = orders[o].status
                    /\ out'.result.completion_date = orders[o].currentStatusDate[1]
                    /\ orders' = orders
                    /\ payCount' = payCount
                    /\ pendingSaves' = pendingSaves
          /\ (pc[p] \in {"so_save", "so_pay"} /\ Returns(p, "submitOrder")
                  /\ out'.result.kind = "order") =>
                /\ out'.result.status = "pending"
                /\ out'.result.completion_date = loc[p][1].currentStatusDate[1]]_vars

C9_Witness ==
    /\ out.op = "submitOrder"
    /\ out.result.kind = "order"
    /\ out.result.status \in Terminal
    /\ out.req.orderId \in DOMAIN orders
    /\ orders[out.req.orderId].status = out.result.status

\* C10: submitOrder on an opened order throws Expired exactly when the
\* current time is later than createdDate + 10 minutes; then the store is
\* unchanged and payTo is not called.
C10_SubmitExpiry ==
    [][\A p \in Procs, o \in DOMAIN orders :
          (BeginsOn(p, "submitOrder", o) /\ orders[o].status = "opened") =>
              LET expired == /\ Returns(p, "submitOrder")
                             /\ out'.result = Err("expired")
              IN /\ expired <=> now > orders[o].createdDate + OPEN_TTL
                 /\ expired => /\ orders' = orders
                               /\ payCount' = payCount
                               /\ pendingSaves' = pendingSaves]_vars

C10_Witness ==
    /\ out.op = "submitOrder"
    /\ out.result = Err("expired")
    /\ out.req.orderId \in DOMAIN orders
    /\ orders[out.req.orderId].status = "opened"
    /\ now > orders[out.req.orderId].createdDate + OPEN_TTL

\* the request slot p begins in this step
Begun(p) == IF pc'[p] = "idle" THEN out'.req ELSE req'[p]

\* an opened row that submitOrder, at time t, does not find expired
Submittable(row, t) ==
    /\ row.status = "opened"
    /\ t <= row.createdDate + OPEN_TTL

\* C11: submitOrder on an unexpired opened order of an earn offer with a
\* form the validator rejects throws the invalid-form error, changes nothing
\* in the store (the order stays opened) and does not call payTo; with an
\* accepted form it goes on to the save, and for a spend offer it goes on to
\* the save whatever the form.
C11_InvalidForm ==
    [][\A p \in Procs, o \in DOMAIN orders :
          (BeginsOn(p, "submitOrder", o) /\ Submittable(orders[o], now)
              /\ orders[o].offerId \in OfferIds) =>
              IF Offer(orders[o].offerId).type = "earn" /\ ~Begun(p).formValid
              THEN /\ Returns(p, "submitOrder")
                   /\ out'.result = Err("invalid form")
                   /\ out'.paid = <<>>
                   /\ orders' = orders
                   /\ payCount' = payCount
                   /\ pendingSaves' = pendingSaves
              ELSE /\ pc'[p] = "so_save"
                   /\ loc'[p][1].status = "pending"]_vars

C11_Witness ==
    /\ out.op = "submitOrder"
    /\ out.result = Err("invalid form")
    /\ out.req.orderId \in DOMAIN orders
    /\ orders[out.req.orderId].status = "opened"
    /\ orders[out.req.orderId].type = "earn"
    /\ now <= orders[out.req.orderId].createdDate + OPEN_TTL

\* C12: the save of a submitOrder persists the order as pending; for a spend
\* offer the call returns the pending projection right then and payTo is not
\* called; for an earn offer payTo is called once, with (walletAddress,
\* appId, offer.amount, order.id), and the call that returns a projection
\* returns status pending; payTo is called in no other step.
C12_SubmitPersistsAndPays ==
    [][\A p \in Procs :
          /\ pc[p] = "so_save" /\ pc'[p] # "so_save" =>
                LET id == loc[p][1].id
                    offer == Offer(loc[p][1].offerId)
                IN /\ orders'[id].status = "pending"
                   /\ payCount' = payCount
                   /\ IF offer.type = "earn"
                      THEN pc'[p] = "so_pay" /\ out' = NoOut
                      ELSE /\ Returns(p, "submitOrder")
                           /\ out'.result.kind = "order"
                           /\ out'.result.id = id
                           /\ out'.result.status = "pending"
                           /\ out'.paid = <<>>
          /\ pc[p] = "so_pay" /\ pc'[p] # "so_pay" =>
                LET id == loc[p][1].id
                    offer == Offer(loc[p][1].offerId)
                IN /\ offer.type = "earn"
                   /\ Returns(p, "submitOrder")
                   /\ out'.paid = <<(<<req[p].walletAddress, req[p].appId,
                                       offer.amount, id>>)>>
                   /\ payCount' = [payCount EXCEPT ![id] = @ + 1]
                   /\ out'.result.kind = "order" =>
                         out'.result.id = id /\ out'.result.status = "pending"
          /\ payCount' # payCount => \E q \in Procs : pc[q] = "so_pay" /\ pc'[q] = "idle"]_vars

C12_Witness ==
    /\ out.op = "submitOrder"
    /\ out.result.kind = "order"
    /\ out.result.status = "pending"
    /\ out.paid # <<>>
    /\ out.paid[1][1] \in Wallets
    /\ out.req.orderId \in DOMAIN orders
    /\ orders[out.req.orderId].status = "pending"
    /\ orders[out.req.orderId].type = "earn"

\* C13: once submitOrder has persisted the order as pending, the call
\* returns the pending projection whatever payTo does: it throws nothing.
C13_PaymentFailureNotRaised ==
    [][\A p \in Procs :
          (pc[p] = "so_pay" /\ Returns(p, "submitOrder")) =>
              /\ out'.result.kind = "order"
              /\ out'.result.status = "pending"]_vars

\* the offer's orders number cap.total, or the user's cap.per_user
AtCap(u, f) ==
    \/ CountOffer(f) = Offer(f).cap.total
    \/ CountUserOffer(u, f) = Offer(f).cap.per_user

\* in this step slot p begins createMarketplaceOrder(f, u)
BeginsCreate(p, u, f) ==
    /\ pc[p] = "idle"
    /\ started' = started + 1
    /\ pc'[p] # "idle" \/ (out'.op # "none" /\ out'.proc = p)
    /\ Begun(p).op = "createMarketplaceOrder"
    /\ Begun(p).userId = u
    /\ Begun(p).offerId = f

\* C14: with one request at a time, createMarketplaceOrder called for a
\* user without an opened order on the offer while a cap is reached goes to
\* the counts; the cap stays reached until the call ends, and the call ends
\* with the cap-reached error, having persisted nothing.
C14_SequentialCap ==
    [][\A p \in Procs :
          /\ \A u \in Users, f \in OfferIds :
                (BeginsCreate(p, u, f) /\ OpenOrdersOf(u, f) = {} /\ AtCap(u, f)) =>
                    /\ pc'[p] = "cmo_total"
                    /\ orders' = orders
          /\ \A u \in Users, f \in OfferIds :
                (pc[p] \in {"cmo_total", "cmo_user"} /\ req[p].userId = u
                    /\ req[p].offerId = f /\ AtCap(u, f)) =>
                /\ DOMAIN orders' = DOMAIN orders
                /\ AtCap(u, f)'
                /\ \/ pc'[p] \in {"cmo_total", "cmo_user"}
                   \/ /\ Returns(p, "createMarketplaceOrder")
                      /\ out'.result = Err("cap reached")]_vars

C14_Witness ==
    /\ out.op = "createMarketplaceOrder"
    /\ out.result = Err("cap reached")
    /\ OpenOrdersOf(out.req.userId, out.req.offerId) = {}
    /\ CountOffer(out.req.offerId) < Offer(out.req.offerId).cap.total
    /\ CountUserOffer(out.req.userId, out.req.offerId)
           = Offer(out.req.offerId).cap.per_user

\* the opened rows of user u on offer f
OpenedRows(u, f) ==
    {i \in DOMAIN orders : /\ orders[i].userId = u
                            /\ orders[i].offerId = f
                            /\ orders[i].status = "opened"}

\* in this step slot p begins createExternalOrder(jwt, u)
BeginsCreateExternal(p, u) ==
    /\ pc[p] = "idle"
    /\ started' = started + 1
    /\ pc'[p] # "idle" \/ (out'.op # "none" /\ out'.proc = p)
    /\ Begun(p).op = "createExternalOrder"
    /\ Begun(p).userId = u

\* the call of slot p returns in this step the one opened order of u on f
\* and the store keeps its rows
ReturnsOpened(p, u, f) ==
    /\ Cardinality(OpenedRows(u, f)) = 1
    /\ pc'[p] = "idle"
    /\ out'.result.kind = "openOrder"
    /\ out'.result.id \in OpenedRows(u, f)
    /\ out'.result.expiration_date
           = orders[out'.result.id].createdDate + OPEN_TTL
    /\ orders' = orders
    /\ nextId' = nextId

\* C15: with one request at a time, createMarketplaceOrder for a user with
\* an opened order on the offer, and createExternalOrder for a user with an
\* opened order on the JWT's offer, return that order's id and leave the
\* store as it was, caps reached or not; so any number of such calls in a
\* row leaves the persisted orders unchanged.
C15_IdempotentReentry ==
    [][\A p \in Procs, u \in Users :
          /\ \A f \in OfferIds :
                (BeginsCreate(p, u, f) /\ OpenedRows(u, f) # {}) =>
                    ReturnsOpened(p, u, f)
          /\ (BeginsCreateExternal(p, u) /\ OpenedRows(u, ExternalOffer.id) # {}) =>
                ReturnsOpened(p, u, ExternalOffer.id)]_vars

\* a re-entry on an offer whose caps are reached
C15_Witness ==
    /\ out.op = "createMarketplaceOrder"
    /\ out.result.kind = "openOrder"
    /\ out.result.id \in OpenedRows(out.req.userId, out.req.offerId)
    /\ CountOffer(out.req.offerId) = Offer(out.req.offerId).cap.total
    /\ nextId = out.result.id + 1
    /\ started = MaxRequests

\* C16: a createMarketplaceOrder call that has passed both cap checks is at
\* its save; the save adds exactly one row, with status opened, the user
\* and offer of the call and the offer's amount and type, changes no other
\* row, and the call returns the row's id with expiration_date equal to the
\* row's createdDate + 10 minutes.
C16_CreationResult ==
    [][\A p \in Procs :
          /\ (pc[p] = "cmo_user" /\ pc'[p] # "cmo_user"
                  /\ CountUserOffer(req[p].userId, req[p].offerId)
                         # Offer(req[p].offerId).cap.per_user) =>
                pc'[p] = "cmo_save" /\ orders' = orders
          /\ (pc[p] = "cmo_save" /\ pc'[p] # "cmo_save") =>
                /\ Returns(p, "createMarketplaceOrder")
                /\ out'.result.kind = "openOrder"
                /\ LET i == out'.result.id
                       offer == Offer(req[p].offerId)
                   IN /\ i \notin DOMAIN orders
                      /\ DOMAIN orders' = DOMAIN orders \cup {i}
                      /\ \A j \in DOMAIN orders : orders'[j] = orders[j]
                      /\ orders'[i].id = i
                      /\ orders'[i].status = "opened"
                      /\ orders'[i].origin = "marketplace"
                      /\ orders'[i].userId = req[p].userId
                      /\ orders'[i].offerId = req[p].offerId
                      /\ orders'[i].amount = offer.amount
                      /\ orders'[i].type = offer.type
                      /\ orders'[i].createdDate <= now
                      /\ out'.result.expiration_date
                             = orders'[i].createdDate + OPEN_TTL]_vars

\* a creation that returns after the clock has moved
C16_Witness ==
    /\ out.op = "createMarketplaceOrder"
    /\ out.result.kind = "openOrder"
    /\ nextId = out.result.id + 1
    /\ ticks > 0
    /\ out.result.expiration_date = orders[out.result.id].createdDate + OPEN_TTL
    /\ CountOffer(out.req.offerId) = 1

\* C17: getOrder throws the not-found error when no row has the id or the
\* row's status is opened, issuing no save; for a row whose status is
\* pending, completed or failed it returns the row's projection; in every
\* case the call leaves the store as it was.
C17_GetOrderNotFound ==
    [][\A p \in Procs, o \in OrderIds :
          BeginsOn(p, "getOrder", o) =>
              /\ Returns(p, "getOrder")
              /\ orders' = orders
              /\ IF o \notin DOMAIN orders \/ orders[o].status = "opened"
                 THEN /\ out'.result = Err("no such order or order is open")
                      /\ bgSaves' = bgSaves
                 ELSE /\ out'.result.kind = "order"
                      /\ out'.result.id = o
                      /\ out'.result.offer_id = orders[o].offerId
                      /\ out'.result.amount = orders[o].amount]_vars

C17_Witness ==
    /\ out.op = "getOrder"
    /\ out.result = Err("no such order or order is open")
    /\ out.req.orderId \in DOMAIN orders
    /\ orders[out.req.orderId].status = "opened"
    /\ bgSaves = {}

\* the order entities there are: the rows of the store, the entities the
\* requests hold and the entities of the saves nobody awaits
Entities ==
    {orders[i] : i \in DOMAIN orders}
        \cup {loc[p][1] : p \in {q \in Procs : loc[q] # <<>>}}
        \cup bgSaves

\* C18: for every order, expirationDate is null exactly when the status is
\* completed or failed; it is createdDate + 10 minutes for an opened order
\* and currentStatusDate + 45 seconds for a pending one; two orders with the
\* same status and dates have the same expirationDate.
C18_ExpirationDate ==
    /\ \A order \in Entities :
          /\ expirationDate(order) = <<>> <=> order.status \in Terminal
          /\ order.status = "opened" =>
                expirationDate(order) = <<order.createdDate + OPEN_TTL>>
          /\ order.status = "pending" =>
                /\ order.currentStatusDate # <<>>
                /\ expirationDate(order)
                       = <<order.currentStatusDate[1] + PENDING_TTL>>
    /\ \A a, b \in Entities :
          (/\ a.status = b.status
           /\ a.createdDate = b.createdDate
           /\ a.currentStatusDate = b.currentStatusDate) =>
              expirationDate(a) = expirationDate(b)

\* an order that became pending after the clock had moved, beside an
\* opened one
C18_Witness ==
    /\ \E i \in DOMAIN orders :
          /\ orders[i].status = "pending"
          /\ orders[i].currentStatusDate[1] > orders[i].createdDate
          /\ expirationDate(orders[i]) = <<orders[i].currentStatusDate[1] + PENDING_TTL>>
    /\ \E j \in DOMAIN orders : orders[j].status = "opened"

\* the changes of a persisted status the lifecycle has
Transitions ==
    {<<"opened", "pending">>, <<"opened", "failed">>,
     <<"pending", "completed">>, <<"pending", "failed">>}

\* C19: every step leaves the persisted status of a row as it is or changes
\* it by opened to pending, opened to failed, pending to completed or
\* pending to failed; a row that disappears was opened and a row that
\* appears is opened.
C19_StatusTransitions ==
    [][/\ \A i \in DOMAIN orders :
            IF i \in DOMAIN orders'
            THEN \/ orders'[i].status = orders[i].status
                 \/ <<orders[i].status, orders'[i].status>> \in Transitions
            ELSE orders[i].status = "opened"
       /\ \A i \in DOMAIN orders' \ DOMAIN orders :
            orders'[i].status = "opened"]_vars

\* C20: the lazy timeout check, applied to an opened order after
\* createdDate + 10 minutes, gives the order the status failed.
C20_OpenedTimesOut ==
    \A i \in DOMAIN orders :
        (orders[i].status = "opened" /\ now > orders[i].createdDate + OPEN_TTL) =>
            checkIfTimedOut(orders[i], now).status = "failed"

\* ------------------------------------------------------- order history
\* the rows of user u that are not opened
HistoryOf(u) ==
    {i \in DOMAIN orders : orders[i].userId = u /\ orders[i].status # "opened"}

\* the status date of a row: currentStatusDate, or createdDate without one
StatusDate(i) ==
    IF orders[i].currentStatusDate # <<>>
    THEN orders[i].currentStatusDate[1]
    ELSE orders[i].createdDate

\* row i sorts before row j: later status date, then larger id
Newer(i, j) ==
    \/ StatusDate(i) > StatusDate(j)
    \/ StatusDate(i) = StatusDate(j) /\ i > j

\* in this step slot p returns from getOrderHistory
ReturnsHistory(p) == pc[p] = "idle" /\ Returns(p, "getOrderHistory")

\* the response of this step is the first n rows of the user's history:
\* rows of that user only, none opened, newest first, none left out that
\* sorts before a returned one
FirstOfHistory(n) ==
    LET got == out'.result.orders
        u == out'.req.userId
        ids == {got[k].id : k \in 1..Len(got)}
    IN /\ out'.result.kind = "orderList"
       /\ ids \subseteq HistoryOf(u)
       /\ \A k, m \in 1..Len(got) : k < m => Newer(got[k].id, got[m].id)
       /\ \A i \in HistoryOf(u) \ ids : \A j \in ids : Newer(j, i)
       /\ Len(got) = IF Cardinality(HistoryOf(u)) <= n
                     THEN Cardinality(HistoryOf(u)) ELSE n

\* C21 as stated: getOrderHistory(userId, limit) returns only that user's
\* orders that are not opened, at most limit of them, ordered by status
\* date descending with ties broken by id descending.
C21_HistoryAtMostLimit ==
    [][\A p \in Procs :
          ReturnsHistory(p) => FirstOfHistory(out'.req.limit)]_vars

\* C21: getOrderHistory(userId, limit) returns only that user's orders that
\* are not opened, ordered by status date descending with ties broken by id
\* descending; the first limit of them when limit is at least 1, and all of
\* them when limit is 0.
C21_HistoryPage ==
    [][\A p \in Procs :
          ReturnsHistory(p) =>
              IF out'.req.limit = 0
              THEN FirstOfHistory(Cardinality(DOMAIN orders))
              ELSE FirstOfHistory(out'.req.limit)]_vars

\* a history of two orders with the same status date was returned in full,
\* while the other user has orders too
C21_Witness ==
    /\ out.op = "getOrderHistory"
    /\ out.result.kind = "orderList"
    /\ Len(out.result.orders) = 2
    /\ StatusDate(out.result.orders[1].id) = StatusDate(out.result.orders[2].id)
    /\ \E i \in DOMAIN orders : orders[i].userId # out.req.userId

\* C22: a getOrderHistory call that carries the cursor of the previous page
\* returns a page other than the first whenever the user has more orders
\* than limit: none of its orders is among the first limit of the history.
C22_CursorAdvances ==
    [][\A p \in Procs :
          (/\ ReturnsHistory(p)
           /\ out'.req.after = AFTER_CURSOR
           /\ out'.req.limit > 0
           /\ Cardinality(HistoryOf(out'.req.userId)) > out'.req.limit) =>
              /\ out'.result.kind = "orderList"
              /\ LET first == getAll(out'.req.userId, "!opened", out'.req.limit)
                 IN \A k \in 1..Len(out'.result.orders) :
                       \A m \in 1..Len(first) :
                           out'.result.orders[k].id # first[m]]_vars

\* C28: whenever submitOrder calls payTo for an order, a save of the pending
\* status of that order has been executed before, and the persisted row,
\* unless a concurrent cancelOrder has removed it, is not opened.
C28_PendingPersistedBeforePay ==
    [][\A i \in OrderIds :
          payCount'[i] # payCount[i] =>
              /\ pendingSaves[i] > 0
              /\ i \in DOMAIN orders => orders[i].status # "opened"
              /\ \E p \in Procs : /\ pc[p] = "so_pay"
                                  /\ loc[p][1].id = i
                                  /\ loc[p][1].status = "pending"]_vars

\* payTo was called for an order that is persisted as pending while another
\* request is in progress
C28_Witness ==
    /\ out.op = "submitOrder"
    /\ out.paid # <<>>
    /\ out.req.orderId \in DOMAIN orders
    /\ orders[out.req.orderId].status = "pending"
    /\ pendingSaves[out.req.orderId] > 0
    /\ \E q \in Procs : pc[q] # "idle"

\* C29: getOrder, getOrderHistory and submitOrder never call orderDbToApi
\* with an opened order: none of them throws its error, and the entity
\* submitOrder holds after its checks is pending.
C29_NeverProjectsOpened ==
    /\ out.op \in {"getOrder", "getOrderHistory", "submitOrder"} =>
          out.result # Err("opened orders should not be returned")
    /\ \A p \in Procs :
          pc[p] \in {"so_save", "so_pay"} => loc[p][1].status = "pending"

\* getOrderHistory answered a user who has an opened order
C29_Witness ==
    /\ out.op = "getOrderHistory"
    /\ out.result.kind = "orderList"
    /\ \E i \in DOMAIN orders : /\ orders[i].userId = out.req.userId
                                /\ orders[i].status = "opened"

\* C27: in every reachable state, one whose count is already past the cap
\* included, a createMarketplaceOrder call of a user without an opened order
\* that counts cap.total or more orders of the offer, or cap.per_user or
\* more of the user's, is refused at that count and creates no order.
C27_RefusedAtOrPastCap ==
    [][\A p \in Procs :
          /\ (/\ pc[p] = "cmo_total" /\ pc'[p] # "cmo_total"
              /\ CountOffer(req[p].offerId) >= Offer(req[p].offerId).cap.total) =>
                /\ Returns(p, "createMarketplaceOrder")
                /\ out'.result = Err("cap reached")
          /\ (/\ pc[p] = "cmo_user" /\ pc'[p] # "cmo_user"
              /\ CountUserOffer(req[p].userId, req[p].offerId)
                     >= Offer(req[p].offerId).cap.per_user) =>
                /\ Returns(p, "createMarketplaceOrder")
                /\ out'.result = Err("cap reached")]_vars

\* a save of the status failed for order i has been issued and not executed
FailedSaveIssued(i) == \E s \in bgSaves : s.id = i /\ s.status = "failed"

\* C30: a getOrder or getOrderHistory call that loads a pending order later
\* than 45 seconds after its currentStatusDate has issued a save of the
\* status failed for it by the time it returns; the step in which such a
\* save stops being outstanding leaves the order persisted as completed or
\* failed; and when every issued save is executed, again and again no such
\* save is outstanding: the persisted status of the order has left pending
\* and is terminal.
C30_TimeoutSaveIssuedAndLands ==
    /\ [][/\ \A p \in Procs :
              /\ \A o \in DOMAIN orders :
                    (BeginsOn(p, "getOrder", o)
                        /\ PastPendingDeadline(orders[o], now)) =>
                        /\ Returns(p, "getOrder")
                        /\ FailedSaveIssued(o)'
              /\ ReturnsHistory(p) =>
                    \A o \in HistoryOf(out'.req.userId) :
                        ((\E k \in 1..Len(out'.result.orders) :
                              out'.result.orders[k].id = o)
                            /\ PastPendingDeadline(orders[o], now)) =>
                            FailedSaveIssued(o)'
         /\ \A i \in OrderIds :
              (FailedSaveIssued(i) /\ ~FailedSaveIssued(i)') =>
                  /\ i \in DOMAIN orders'
                  /\ orders'[i].status \in Terminal]_vars
    /\ []<>(\A i \in OrderIds : ~FailedSaveIssued(i))

\* a call has returned failed for a pending order whose save is issued and
\* not yet executed
C30_Witness ==
    /\ out.op \in {"getOrder", "getOrderHistory"}
    /\ \E i \in DOMAIN orders :
          /\ orders[i].status = "pending"
          /\ PastPendingDeadline(orders[i], now)
          /\ FailedSaveIssued(i)

\* ----------------------------------------------------------- rate limits
\* the buckets of a prefix that lie in the window trailing `current`
InWindow(prefix, current, windowSize) ==
    {k \in LiveKeys : /\ k[1] = prefix
                      /\ k[2] > current - windowSize
                      /\ k[2] <= current}

\* the sum of the values under the keys S, each key once
RECURSIVE SumOf(_)
SumOf(S) ==
    IF S = {} THEN 0
    ELSE LET k == CHOOSE x \in S : TRUE
         IN redis[k].value + SumOf(S \ {k})

\* C23: a rate-limit check with step s first adds s to the bucket of the
\* current time and changes no other bucket; it then reports that the limit
\* is hit exactly when the buckets of the trailing window, each counted
\* once, the current one included, sum to the limit or more. With limit L
\* and step 1 the check that brings the window to L is rejected.
C23_RateCheck ==
    [][\A p \in Procs :
          /\ (pc[p] = "idle" /\ pc'[p] = "rl_mget") =>
                LET r == req'[p]
                    key == Key(r.prefix, r.current)
                IN /\ r.current <= now
                   /\ now < r.current + bucketSize(r.windowSize)
                   /\ key \in DOMAIN redis'
                   /\ redis'[key].value
                          = (IF key \in LiveKeys THEN redis[key].value ELSE 0)
                                + r.step
                   /\ \A k \in LiveKeys \ {key} :
                          k \in DOMAIN redis' /\ redis'[k] = redis[k]
          /\ (pc[p] = "rl_mget" /\ pc'[p] = "idle") =>
                LET r == req[p]
                    sum == SumOf(InWindow(r.prefix, r.current, r.windowSize))
                IN /\ Returns(p, r.op)
                   /\ out'.result \in {Void, Err("TooManyRegistrations"),
                                       Err("TooMuchEarnOrdered")}
                   /\ out'.result # Void <=> sum >= r.limitValue
                   /\ redis' = redis]_vars

\* the check that brought the registrations of the window to the limit was
\* rejected, another check counted in between
C23_Witness ==
    /\ out.op = "throwOnRateLimit"
    /\ out.result = Err("TooManyRegistrations")
    /\ started = RegistrationLimit
    /\ SumOf(InWindow(out.req.prefix, out.req.current, out.req.windowSize))
           = RegistrationLimit
    /\ Cardinality(InWindow(out.req.prefix, out.req.current,
                            out.req.windowSize)) > 1

\* C24: a check with a step smaller than the limit, whose key has no bucket
\* in the trailing window but the one the check itself has incremented, is
\* admitted: the buckets older than the window do not count.
C24_AdmittedAfterWindow ==
    [][\A p \in Procs :
          (/\ pc[p] = "rl_mget" /\ pc'[p] = "idle"
           /\ req[p].step < req[p].limitValue
           /\ RedisGet(Key(req[p].prefix, req[p].current)) \in {<<>>, <<req[p].step>>}
           /\ \A k \in LiveKeys :
                 (k[1] = req[p].prefix /\ k[2] # req[p].current) =>
                     k[2] <= req[p].current - req[p].windowSize) =>
              out'.result = Void]_vars

\* a check was admitted while a bucket older than the window still holds
\* enough to hit the limit
C24_Witness ==
    /\ out.op \in {"throwOnRateLimit", "checkAppEarnLimit"}
    /\ out.result = Void
    /\ \E k \in LiveKeys :
          /\ k[1] = out.req.prefix
          /\ k[2] <= out.req.current - out.req.windowSize
          /\ redis[k].value + out.req.step >= out.req.limitValue

\* ----------------------------------------------------------------- users
\* in this step slot p begins request `op`
Begins(p, op) ==
    /\ pc[p] = "idle"
    /\ started' = started + 1
    /\ pc'[p] # "idle" \/ (out'.op # "none" /\ out'.proc = p)
    /\ Begun(p).op = op

\* C25: updateUser with a wallet_address that is missing or whose length is
\* not 56 throws InvalidWalletAddress and leaves every user's wallets as
\* they are; with an address of length 56 it goes on to the update, returns
\* without an error, and the address is among the user's wallets afterwards,
\* the wallets the user had still being there and the other users' wallets
\* unchanged; nothing else changes the wallets.
C25_UpdateUserWallet ==
    [][/\ \A p \in Procs :
            /\ Begins(p, "updateUser") =>
                  LET w == Begun(p).walletAddress
                  IN /\ wallets' = wallets
                     /\ IF w = <<>> \/ w[1].length # 56
                        THEN /\ Returns(p, "updateUser")
                             /\ out'.result = Err("InvalidWalletAddress")
                        ELSE pc'[p] = "uu_update" /\ out' = NoOut
            /\ (pc[p] = "uu_update" /\ pc'[p] # "uu_update") =>
                  /\ Returns(p, "updateUser")
                  /\ out'.result = Void
                  /\ req[p].walletAddress[1].length = 56
                  /\ req[p].walletAddress[1] \in wallets'[req[p].userId]
                  /\ wallets[req[p].userId] \subseteq wallets'[req[p].userId]
                  /\ \A u \in Users \ {req[p].userId} : wallets'[u] = wallets[u]
       /\ wallets' # wallets => \E p \in Procs : pc[p] = "uu_update"]_vars

\* an address of the wrong length was refused to a user who has a wallet
C25_Witness ==
    /\ out.op = "updateUser"
    /\ out.result = Err("InvalidWalletAddress")
    /\ out.req.walletAddress # <<>>
    /\ out.req.walletAddress[1].length \in {55, 57}
    /\ wallets[out.req.userId] # {}

\* C26: a request that bears a token which is invalid (logged out) or
\* expired when the request arrives is not authenticated by getTokenAndUser,
\* whether or not a copy of the token is cached: it is rejected with
\* InvalidToken.
C26_RevokedTokenRejected ==
    [][\A p \in Procs : \A t \in TokenIds :
          (/\ ~tokens[t].valid \/ isExpired(tokens[t], now)
           /\ \/ Begins(p, "getTokenAndUser") /\ Begun(p).token = t
              \/ pc[p] = "au_find" /\ pc'[p] # "au_find" /\ req[p].token = t) =>
              /\ pc'[p] = "idle" => out'.result = Err("InvalidToken")
              /\ pc'[p] \in {"idle", "au_find"}]_vars

\* the orders a response carries
ReturnedOrders ==
    IF out = NoOut THEN {}
    ELSE IF out.result.kind = "order" THEN {out.result}
    ELSE IF out.result.kind = "orderList"
    THEN {out.result.orders[k] : k \in 1..Len(out.result.orders)}
    ELSE {}

\* C31: every order whose status is failed, in the store or in a response,
\* including one failed by the lazy timeout check, carries an error record
\* (code, error, message).
C31_FailedCarriesError ==
    /\ \A i \in DOMAIN orders :
          orders[i].status = "failed" => orders[i].error # <<>>
    /\ \A o \in ReturnedOrders : o.status = "failed" => o.error # <<>>

\* C32: an order's origin is set at construction from the creating variant
\* (marketplace for createMarketplaceOrder, external for createExternalOrder;
\* constructing the base Order fails), and no step changes the origin,
\* createdDate, userId, offerId or amount of a persisted order.
C32_OriginImmutable ==
    [][/\ NewThrows("Order")
       /\ ~NewThrows("MarketplaceOrder")
       /\ ~NewThrows("ExternalOrder")
       /\ \A i \in DOMAIN orders' :
             IF i \in DOMAIN orders
             THEN /\ orders'[i].origin = orders[i].origin
                  /\ orders'[i].createdDate = orders[i].createdDate
                  /\ orders'[i].userId = orders[i].userId
                  /\ orders'[i].offerId = orders[i].offerId
                  /\ orders'[i].amount = orders[i].amount
             ELSE /\ out'.op \in {"createMarketplaceOrder", "createExternalOrder"}
                  /\ out'.op = "createMarketplaceOrder" =>
                        orders'[i].origin = "marketplace"
                  /\ out'.op = "createExternalOrder" =>
                        orders'[i].origin = "external"]_vars

C32_Witness ==
    \E i, j \in DOMAIN orders :
        /\ orders[i].origin = "external"
        /\ orders[j].origin = "marketplace"
        /\ orders[j].status = "pending"
        /\ orders[j].currentStatusDate[1] > orders[j].createdDate

\* the persisted orders of offer f, and those of user u among them
RowsOf(f) == {i \in DOMAIN orders : orders[i].offerId = f}
RowsOfUser(u, f) == {i \in RowsOf(f) : orders[i].userId = u}

C34_ReturnedOrderSubmittable ==
    [][\A p \in Procs :
          (/\ pc[p] = "idle"
           /\ started' = started + 1
           /\ out'.op \in {"createMarketplaceOrder", "createExternalOrder"}
           /\ out'.proc = p
           /\ out'.result.kind = "openOrder") =>
              /\ out'.result.expiration_date >= now
              /\ ~SubmitExpired(orders[out'.result.id], now)]_vars

\* the throttle of checkRate
RateThrottle == CHOOSE th \in Throttles : th.op = "throwOnRateLimit"

\* the admitted checkRate calls of S whose buckets lie in the window
\* trailing the bucket `current`
AdmittedInWindow(S, current) ==
    {a \in S : /\ a.call.current > current - RateThrottle.windowSize
               /\ a.call.current <= current}

\* the admitted calls that read their window before a bucket of it, written
\* at most one window before they began, could expire
Timely == {a \in admitted : a.call.timely}

\* C35 as stated: under any interleaving of concurrent checkRate calls on
\* one key, the number of calls admitted within any one trailing window is
\* strictly less than the limit.
C35_AdmittedBelowLimit ==
    \A a \in admitted :
        Cardinality(AdmittedInWindow(admitted, a.call.current))
            < RateThrottle.limitValue

\* C35: under any interleaving of concurrent checkRate calls on one key, the
\* number of calls admitted within any one trailing window is strictly less
\* than the limit, counting the calls whose read came before the keys of
\* their window expired (less than ttl - windowSize after the call began).
C35_TimelyAdmittedBelowLimit ==
    \A a \in Timely :
        Cardinality(AdmittedInWindow(Timely, a.call.current))
            < RateThrottle.limitValue

\* a call is rejected, another one in flight, with limit - 1 calls admitted
\* in its window
C35_Witness ==
    /\ out.op = RateThrottle.op
    /\ out.result = Err(RateThrottle.error)
    /\ Cardinality(AdmittedInWindow(Timely, out.req.current))
           = RateThrottle.limitValue - 1
    /\ \E q \in Procs : pc[q] = "rl_mget" /\ req[q].op = RateThrottle.op

\* in this step the check of slot p returns
Checked(p) == pc[p] = "rl_mget" /\ pc'[p] = "idle"

\* the check of slot p reads while every bucket counted by the last rejected
\* check of its limit lies in its window
InHitWindow(p) ==
    /\ lastHit[req[p].op] # <<>>
    /\ lastHit[req[p].op][1].to <= req[p].current
    /\ lastHit[req[p].op][1].from > req[p].current - req[p].windowSize

\* C36 as stated: a rejected check leaves its step in the current bucket;
\* once a check was rejected, every further check whose window holds the
\* buckets that check counted is rejected, and a single check with a step of
\* the limit or more is always rejected.
C36_RejectedCounts ==
    [][\A p \in Procs :
          Checked(p) =>
             /\ out'.result # Void => redis' = redis
             /\ InHitWindow(p) => out'.result # Void
             /\ req[p].step >= req[p].limitValue => out'.result # Void]_vars

\* the check of slot p reads before a bucket written in or after bucket b
\* can have expired
ReadsBeforeExpiry(p, b) == now < b + ttl(req[p].windowSize)

\* C36: a rejected check leaves its step in the current bucket, and while
\* the buckets have not expired rejected calls count toward later checks:
\* once a check was rejected, every further check whose window holds the
\* buckets that check counted is rejected, and a single check with a step of
\* the limit or more is rejected.
C36_RejectedCountsUntilExpiry ==
    [][\A p \in Procs :
          Checked(p) =>
             /\ out'.result # Void =>
                   /\ redis' = redis
                   /\ ReadsBeforeExpiry(p, req[p].current) =>
                         RedisGet(Key(req[p].prefix, req[p].current))[1]
                             >= req[p].step
             /\ (InHitWindow(p)
                    /\ ReadsBeforeExpiry(p, lastHit[req[p].op][1].from)) =>
                   out'.result # Void
             /\ (req[p].step >= req[p].limitValue
                    /\ ReadsBeforeExpiry(p, req[p].current)) =>
                   out'.result # Void]_vars

\* a check is rejected on the step of a check rejected before it: what the
\* admitted checks added stays below the limit
C36_Witness ==
    /\ out.op = "throwOnRateLimit"
    /\ out.result # Void
    /\ lastHit[out.op] # <<>>
    /\ Cardinality(admitted) = RegistrationLimit - 1
    /\ started = RegistrationLimit + 1
    /\ SumOf(InWindow(out.req.prefix, out.req.current, out.req.windowSize))
           = RegistrationLimit + 1

\* -------------------------------------------------- batch, bulkUserCreation
\* slot p serves no request, or its request has stopped for good: a chunk
\* callback rejected and every element of the chunk has settled
Stopped(p) ==
    \/ pc[p] = "idle"
    \/ /\ pc[p] = "ba_chunk"
       /\ loc[p][1].failed
       /\ loc[p][1].running = {}

\* C37: the users created through bulkUserCreation for an app never number
\* more than the app's bulk_user_creation_allowed, under any interleaving of
\* concurrent bulk requests; and once the requests have ended, also those
\* that failed midway, the stored allowance is the initial allowance minus
\* the number of users created.
C37_AllowanceAccounts ==
    /\ created <= BulkAllowed
    /\ (\A p \in Procs : Stopped(p)) => allowance = BulkAllowed - created

\* the chunks of a batch call, one after the other
RECURSIVE Flatten(_)
Flatten(chunks) ==
    IF chunks = <<>> THEN <<>>
    ELSE Head(chunks).items \o Flatten(Tail(chunks))

\* slot 1 is inside a batch call
InBatch == req[1].op = "batch" /\ pc[1] \in {"ba_chunk", "ba_timer"}

\* the batch call has resolved
BatchResolved == out.op = "batch" /\ out.result.kind = "resolved"

\* every element of the list was passed once, in list order, in chunks of at
\* most chunkSize
ProperChunks(r, chunks) ==
    /\ Flatten(chunks) = [k \in 1..Len(r.list) |-> k]
    /\ \A c \in 1..Len(chunks) : Len(chunks[c].items) * 10 <= r.chunkSize

\* C38: batch(list, chunkSize, delay, chunkCb) eventually resolves, and when
\* it resolves every element of list has been passed to chunkCb exactly
\* once, in list order, in consecutive chunks of at most chunkSize; for every
\* list, the empty one included, every chunkSize >= 0, and also when a chunk
\* callback rejects.
C38_BatchResolves ==
    /\ [](BatchResolved => ProperChunks(out.req, out.result.chunks))
    /\ (InBatch ~> BatchResolved)

====
